---- MODULE Spec2Model ----
(***************************************************************************)
(* Model of the CrewLink voice signalling server: the per-socket handlers  *)
(* of src/src/index.ts (second, anti-spoof revision, lines 385-583), the   *)
(* Connection class (src/unnamed/part_000) and the Room class              *)
(* (src/src/room.ts).  Every handler runs to completion as one step: Node  *)
(* is single threaded and socket.emit dispatches synchronously.            *)
(***************************************************************************)
EXTENDS Integers, Sequences, FiniteSets, TLC

\* ---------------------------------------------------------------- bounds
NumSockets == 2
MaxConns == 2
NumCodes == 2
MaxPlayerId == 1
MaxClientId == 2
MaxMembers == 2

Sockets == 1..NumSockets
ConnIds == 1..MaxConns
Codes == 1..NumCodes
\* One Room object more than codes: a fresh object is always at hand.
RoomIds == 1..(NumCodes + 1)

\* JavaScript's two empty values, kept apart because the code tests them
\* with both strict (!== null) and loose (!= null, !x) comparisons.
Undefined == -1
Null == -2

PlayerIds == 0..MaxPlayerId
ClientIds == 1..MaxClientId
PlayerIdArgs == PlayerIds
ClientIdArgs == ClientIds
SignalData == {7}

VARIABLES
    status,          \* socket -> "none" | "open" | "terminated" | "closed"
    connection,      \* socket -> the handler closure's `connection` (id or Undefined)
    connectTimeout,  \* socket -> TRUE while the 5 s timer is armed
    conn,            \* connection id -> fields of the Connection object
    nextId,          \* next id the snowflake source hands out
    connections,     \* the Connection Registry (array of connection ids)
    rooms,           \* the Room Registry: code -> Room object or Null
    room,            \* Room object -> [code, connections]
    connectionCount, \* health counter
    out,             \* what the handler that ran last did to sockets: frames
                     \* and probes written, terminate calls that took effect
    log,             \* what that handler logged as an error ("" when nothing),
                     \* the uncaught exception included
    crashed          \* an exception escaped a handler: the process is gone

vars == <<status, connection, connectTimeout, conn, nextId, connections,
          rooms, room, connectionCount, out, log, crashed>>

\* ------------------------------------------------------------- helpers
Truthy(v) == v \notin {Undefined, Null, 0}

RECURSIVE IndexOf(_, _, _)
\* Array.prototype.indexOf from position i; 0 stands for -1.
IndexOf(seq, x, i) ==
    IF i > Len(seq) THEN 0
    ELSE IF seq[i] = x THEN i
    ELSE IndexOf(seq, x, i + 1)

\* Array.prototype.splice(index, 1)
Splice(seq, i) == SubSeq(seq, 1, i - 1) \o SubSeq(seq, i + 1, Len(seq))

SeqRange(seq) == {seq[i] : i \in 1..Len(seq)}

RECURSIVE Filter(_, _, _)
\* Array.prototype.filter with the test "c.id !== except".
Filter(seq, except, i) ==
    IF i > Len(seq) THEN <<>>
    ELSE IF seq[i] # except THEN <<seq[i]>> \o Filter(seq, except, i + 1)
    ELSE Filter(seq, except, i + 1)

NewConnection(s) ==
    [socket |-> s, playerId |-> Undefined, clientId |-> Undefined,
     room |-> Undefined, isAlive |-> "undefined"]

NoConnection == NewConnection(0)

NewRoom(c) == [code |-> c, connections |-> <<>>]

NoRoom == NewRoom(0)

\* A frame written to a socket: the event, its positional payload and, for
\* SetClients, the id-keyed map.
Frame(c, ev, args, clients) ==
    [sock |-> conn[c].socket, conn |-> c, ev |-> ev, args |-> args, clients |-> clients]

\* Connection.send: socket.send on a socket that is no longer open puts no
\* frame on the wire.
Send(st, c, ev, args, clients) ==
    IF st[conn[c].socket] = "open" THEN <<Frame(c, ev, args, clients)>> ELSE <<>>

RECURSIVE Broadcast(_, _, _, _, _)
\* Room.broadcast over an already filtered member list.
Broadcast(st, members, ev, args, i) ==
    IF i > Len(members) THEN <<>>
    ELSE Send(st, members[i], ev, args, {}) \o Broadcast(st, members, ev, args, i + 1)

\* Room.clients: entries for the filtered members whose playerId is truthy.
Clients(cs, members) ==
    {[key |-> m, id |-> cs[m].playerId, clientId |-> cs[m].clientId] :
        m \in {x \in SeqRange(members) : Truthy(cs[x].playerId)}}

\* socket.terminate(): only an open socket changes.
Terminate(st, s) == IF st[s] = "open" THEN [st EXCEPT ![s] = "terminated"] ELSE st

\* The record of a terminate call that took effect, made on behalf of
\* Connection c (0 when the caller has none at hand).
Terminated(st, s, c) ==
    IF st[s] = "open"
    THEN <<[sock |-> s, conn |-> c, ev |-> "terminate", args |-> <<>>, clients |-> {}]>>
    ELSE <<>>

\* The Room objects the program can still reach.
Reachable == {rooms[c] : c \in Codes} \cup {conn[c].room : c \in ConnIds}
HasFreshRoom == \E r \in RoomIds : r \notin Reachable
\* new Room(c): an object nothing refers to. Object names are arbitrary, so
\* the object named like the code is taken when it is free.
FreshRoom(c) ==
    IF c \notin Reachable THEN c
    ELSE CHOOSE r \in RoomIds : r \notin Reachable /\ \A q \in 1..(r - 1) : q \in Reachable

\* What Node prints when a handler indexes the null payload (data[0]).
NullPayloadError == "TypeError: 0 of null"

\* A decoded payload: absent (len = 0, data stays null) or a JSON array.
NoPayload == [present |-> FALSE, arr |-> <<>>]
Arr(a) == [present |-> TRUE, arr |-> a]

TypeOK ==
    /\ status \in [Sockets -> {"none", "open", "terminated", "closed"}]
    /\ connection \in [Sockets -> ConnIds \cup {Undefined}]
    /\ connectTimeout \in [Sockets -> BOOLEAN]
    /\ nextId \in 1..(MaxConns + 1)
    /\ SeqRange(connections) \subseteq ConnIds
    /\ rooms \in [Codes -> RoomIds \cup {Null}]
    /\ crashed \in BOOLEAN

Init ==
    /\ status = [s \in Sockets |-> "none"]
    /\ connection = [s \in Sockets |-> Undefined]
    /\ connectTimeout = [s \in Sockets |-> FALSE]
    /\ conn = [c \in ConnIds |-> NoConnection]
    /\ nextId = 1
    /\ connections = <<>>
    /\ rooms = [c \in Codes |-> Null]
    /\ room = [r \in RoomIds |-> NoRoom]
    /\ connectionCount = 0
    /\ out = <<>>
    /\ log = ""
    /\ crashed = FALSE

\* ------------------------------------------------------------- handlers
\* wss.on('connection')
Connect(s) ==
    /\ ~crashed
    /\ log' = ""
    /\ status[s] = "none"
    /\ status' = [status EXCEPT ![s] = "open"]
    /\ connectionCount' = connectionCount + 1
    /\ connectTimeout' = [connectTimeout EXCEPT ![s] = TRUE]
    /\ out' = <<>>
    /\ UNCHANGED <<connection, conn, nextId, connections, rooms, room, crashed>>

\* setTimeout(() => socket.terminate(), 5000)
ConnectTimeout(s) ==
    /\ ~crashed
    /\ log' = ""
    /\ connectTimeout[s]
    /\ connectTimeout' = [connectTimeout EXCEPT ![s] = FALSE]
    /\ status' = Terminate(status, s)
    /\ out' = Terminated(status, s, 0)
    /\ UNCHANGED <<connection, conn, nextId, connections, rooms, room,
                   connectionCount, crashed>>

\* message: buf.length < 3
ShortFrame(s) ==
    /\ ~crashed
    /\ log' = ""
    /\ status[s] = "open"
    /\ status' = Terminate(status, s)
    /\ out' = Terminated(status, s, 0)
    /\ UNCHANGED <<connection, connectTimeout, conn, nextId, connections, rooms,
                   room, connectionCount, crashed>>

\* message: an event code outside the handled cases (SetClients included)
UnknownEvent(s) ==
    /\ ~crashed
    /\ log' = "unknown event"
    /\ status[s] = "open"
    /\ status' = Terminate(status, s)
    /\ out' = Terminated(status, s, 0)
    /\ UNCHANGED <<connection, connectTimeout, conn, nextId, connections, rooms,
                   room, connectionCount, crashed>>

\* Mutant: the authenticate handler forgets clearTimeout(connectTimeout).
AuthenticationKeepsTimer(s, data) ==
    /\ ~crashed
    /\ log' = ""
    /\ status[s] = "open"
    /\ IF ~data.present
       THEN /\ status' = Terminate(status, s)
            /\ out' = Terminated(status, s, 0)
            /\ UNCHANGED <<connection, conn, nextId, connections>>
       ELSE /\ nextId <= MaxConns
            /\ conn' = [conn EXCEPT ![nextId] = NewConnection(s)]
            /\ connection' = [connection EXCEPT ![s] = nextId]
            /\ connections' = Append(connections, nextId)
            /\ nextId' = nextId + 1
            /\ out' = <<[sock |-> s, conn |-> nextId, ev |-> "Authentication",
                         args |-> <<nextId>>, clients |-> {}]>>
            /\ UNCHANGED status
    /\ UNCHANGED <<connectTimeout, rooms, room, connectionCount, crashed>>

\* message: Events.Authentication, then socket.on('authenticate')
Authentication(s, data) ==
    /\ ~crashed
    /\ log' = ""
    /\ status[s] = "open"
    /\ IF ~data.present
       THEN /\ status' = Terminate(status, s)
            /\ out' = Terminated(status, s, 0)
            /\ UNCHANGED <<connection, connectTimeout, conn, nextId, connections>>
       ELSE /\ nextId <= MaxConns
            /\ connectTimeout' = [connectTimeout EXCEPT ![s] = FALSE]
            /\ conn' = [conn EXCEPT ![nextId] = NewConnection(s)]
            /\ connection' = [connection EXCEPT ![s] = nextId]
            /\ connections' = Append(connections, nextId)
            /\ nextId' = nextId + 1
            /\ out' = <<[sock |-> s, conn |-> nextId, ev |-> "Authentication",
                         args |-> <<nextId>>, clients |-> {}]>>
            /\ UNCHANGED status
    /\ UNCHANGED <<rooms, room, connectionCount, crashed>>

\* Mutant: the loop compares the members' playerId instead of their clientId.
CollidesOnPlayerId(members, clientId) ==
    \E m \in SeqRange(members) : conn[m].playerId # Null /\ conn[m].playerId = clientId

\* The anti-spoof loop of socket.on('join').
Collides(members, clientId) ==
    \E m \in SeqRange(members) : conn[m].clientId # Null /\ conn[m].clientId = clientId

\* Connection.join
ConnJoin(me, r, room1, id) ==
    LET members == Append(room1[r].connections, me)
        others == Filter(members, me, 1)
        conn1 == [conn EXCEPT ![me].room = r, ![me].playerId = id]
    IN  /\ conn' = conn1
        /\ room' = [room1 EXCEPT ![r].connections = members]
        /\ out' = Broadcast(status, others, "Join", <<me, id>>, 1)
                    \o Send(status, me, "SetClients", <<>>, Clients(conn1, others))

\* message: Events.Join, then socket.on('join')
Join(s, data) ==
    /\ ~crashed
    /\ status[s] = "open"
    /\ IF data.present /\ Len(data.arr) < 3
       THEN /\ status' = Terminate(status, s)
            /\ out' = Terminated(status, s, 0)
            /\ log' = ""
            /\ UNCHANGED <<conn, rooms, room, crashed>>
       ELSE IF ~data.present
       THEN \* data[0] on null
            /\ crashed' = TRUE
            /\ out' = <<>>
            /\ log' = NullPayloadError
            /\ UNCHANGED <<status, conn, rooms, room>>
       ELSE LET c == data.arr[1]
                id == data.arr[2]
                clientId == data.arr[3]
                me == connection[s]
            IN  IF me = Undefined
                   THEN /\ status' = Terminate(status, s)
                        /\ out' = Terminated(status, s, 0)
                        /\ log' = ""
                        /\ UNCHANGED <<conn, rooms, room, crashed>>
                   ELSE LET isNew == rooms[c] = Null
                            r == IF isNew THEN FreshRoom(c) ELSE rooms[c]
                            room1 == IF isNew THEN [room EXCEPT ![r] = NewRoom(c)] ELSE room
                        IN  /\ isNew => HasFreshRoom
                            /\ rooms' = [rooms EXCEPT ![c] = r]
                            /\ IF Collides(room1[r].connections, clientId)
                               THEN /\ status' = Terminate(status, s)
                                    /\ log' = "invalid join command"
                                    /\ room' = room1
                                    /\ out' = Terminated(status, s, 0)
                                    /\ UNCHANGED conn
                               ELSE /\ Len(room1[r].connections) < MaxMembers
                                    /\ log' = ""
                                    /\ ConnJoin(me, r, room1, id)
                                    /\ UNCHANGED status
                            /\ UNCHANGED crashed
    /\ UNCHANGED <<connection, connectTimeout, nextId, connections, connectionCount>>

\* A Room object that neither the registry nor a Connection refers to any
\* more is garbage: it leaves the heap.
Collect(room1, rooms1, conn1) ==
    [r \in RoomIds |->
        IF r \in {rooms1[c] : c \in Codes} \cup {conn1[c].room : c \in ConnIds}
        THEN room1[r] ELSE NoRoom]

\* Mutant: the callers forget the "if (room.count() < 1)" clean-up.
LeaveRoomKeepsRoom(me, r) ==
    LET i == IndexOf(room[r].connections, me, 1)
        members == IF i > 0 THEN Splice(room[r].connections, i) ELSE room[r].connections
        conn1 == [conn EXCEPT ![me].room = Null]
    IN  /\ conn' = conn1
        /\ rooms' = rooms
        /\ room' = [room EXCEPT ![r].connections = members]

\* Mutant: the callers delete the room from the registry without looking at
\* room.count().
LeaveRoomDeletesRoom(me, r) ==
    LET i == IndexOf(room[r].connections, me, 1)
        members == IF i > 0 THEN Splice(room[r].connections, i) ELSE room[r].connections
        conn1 == [conn EXCEPT ![me].room = Null]
        rooms1 == [c \in Codes |-> IF c = room[r].code THEN Null ELSE rooms[c]]
        room1 == [room EXCEPT ![r].connections = members]
    IN  /\ conn' = conn1
        /\ rooms' = rooms1
        /\ room' = Collect(room1, rooms1, conn1)

\* Connection.leave followed by the callers' "if (room.count() < 1)" clean-up.
\* Room.remove drops the first occurrence only.
LeaveRoom(me, r) ==
    LET i == IndexOf(room[r].connections, me, 1)
        members == IF i > 0 THEN Splice(room[r].connections, i) ELSE room[r].connections
        conn1 == [conn EXCEPT ![me].room = Null]
        rooms1 == IF Len(members) < 1
                  THEN [c \in Codes |-> IF c = room[r].code THEN Null ELSE rooms[c]]
                  ELSE rooms
        room1 == [room EXCEPT ![r].connections = members]
    IN  /\ conn' = conn1
        /\ rooms' = rooms1
        /\ room' = Collect(room1, rooms1, conn1)

\* message: Events.Leave, then socket.on('leave')
Leave(s) ==
    /\ ~crashed
    /\ log' = ""
    /\ status[s] = "open"
    /\ out' = <<>>
    /\ IF connection[s] = Undefined \/ conn[connection[s]].room \in {Undefined, Null}
       THEN UNCHANGED <<conn, rooms, room>>
       ELSE LeaveRoom(connection[s], conn[connection[s]].room)
    /\ UNCHANGED <<status, connection, connectTimeout, nextId, connections,
                   connectionCount, crashed>>

\* Mutant: the test rejects the connection's own clientId and lets any other
\* one through.
MismatchInverted(me, clientId) ==
    conn[me].clientId \notin {Undefined, Null} /\ conn[me].clientId = clientId

\* The anti-spoof test of socket.on('client').
Mismatch(me, clientId) ==
    conn[me].clientId \notin {Undefined, Null} /\ conn[me].clientId # clientId

\* Connection.setId
SetId(me, id, clientId) ==
    LET r == conn[me].room
    IN  /\ conn' = [conn EXCEPT ![me].playerId = id, ![me].clientId = clientId]
        /\ out' = IF r \in {Undefined, Null} THEN <<>>
                  ELSE Broadcast(status, Filter(room[r].connections, me, 1),
                                 "SetClient", <<id, clientId>>, 1)

\* message: Events.SetClient, then socket.on('client')
SetClient(s, data) ==
    /\ ~crashed
    /\ status[s] = "open"
    /\ IF data.present /\ Len(data.arr) < 2
       THEN /\ status' = Terminate(status, s)
            /\ out' = Terminated(status, s, 0)
            /\ log' = ""
            /\ UNCHANGED <<conn, crashed>>
       ELSE IF ~data.present
       THEN /\ crashed' = TRUE
            /\ out' = <<>>
            /\ log' = NullPayloadError
            /\ UNCHANGED <<status, conn>>
       ELSE LET id == data.arr[1]
                clientId == data.arr[2]
                me == connection[s]
            IN  /\ UNCHANGED crashed
                /\ IF me = Undefined
                   THEN /\ out' = <<>>
                        /\ log' = ""
                        /\ UNCHANGED <<status, conn>>
                   ELSE IF Mismatch(me, clientId)
                   THEN /\ status' = Terminate(status, s)
                        /\ out' = Terminated(status, s, 0)
                        /\ log' = "invalid id command"
                        /\ UNCHANGED conn
                   ELSE /\ SetId(me, id, clientId)
                        /\ log' = ""
                        /\ UNCHANGED status
    /\ UNCHANGED <<connection, connectTimeout, nextId, connections, rooms, room,
                   connectionCount>>

\* Room.find: the first member whose id equals the argument, 0 when none.
Find(r, id) ==
    LET i == IndexOf(room[r].connections, id, 1)
    IN  IF i > 0 THEN room[r].connections[i] ELSE 0

\* message: Events.Signal, then socket.on('signal')
Signal(s, data) ==
    /\ ~crashed
    /\ status[s] = "open"
    /\ IF data.present /\ Len(data.arr) < 2
       THEN /\ status' = Terminate(status, s)
            /\ out' = Terminated(status, s, 0)
            /\ log' = ""
            /\ UNCHANGED crashed
       ELSE IF ~data.present
       THEN /\ crashed' = TRUE
            /\ out' = <<>>
            /\ log' = NullPayloadError
            /\ UNCHANGED status
       ELSE LET peer == data.arr[1]
                payload == data.arr[2]
                me == connection[s]
            IN  /\ UNCHANGED status
                /\ IF me = Undefined
                   THEN /\ out' = <<>>
                        /\ log' = ""
                        /\ UNCHANGED crashed
                   ELSE IF conn[me].room \in {Undefined, Null}
                   THEN \* connection.room.find on undefined / null
                        /\ crashed' = TRUE
                        /\ out' = <<>>
                        /\ log' = "TypeError: find"
                   ELSE LET peerConnection == Find(conn[me].room, peer)
                        IN  /\ out' = IF peerConnection # 0
                                      THEN Send(status, peerConnection, "Signal",
                                                <<me, payload>>, {})
                                      ELSE <<>>
                            /\ log' = ""
                            /\ UNCHANGED crashed
    /\ UNCHANGED <<connection, connectTimeout, conn, nextId, connections, rooms,
                   room, connectionCount>>

\* socket.on('close'): a client close, a transport error, or the end of a
\* socket the server terminated.
Close(s) ==
    /\ ~crashed
    /\ status[s] \in {"open", "terminated"}
    /\ status' = [status EXCEPT ![s] = "closed"]
    /\ connectionCount' = connectionCount - 1
    /\ out' = <<>>
    /\ LET me == connection[s]
       IN  IF me = Undefined
           THEN /\ log' = ""
                /\ UNCHANGED <<conn, rooms, room, connections, crashed>>
           ELSE IF conn[me].room \in {Undefined, Null}
           THEN \* this.room.remove on undefined / null, inside Connection.leave
                /\ crashed' = TRUE
                /\ log' = "TypeError: remove"
                /\ UNCHANGED <<conn, rooms, room, connections>>
           ELSE /\ LeaveRoom(me, conn[me].room)
                /\ log' = ""
                /\ LET i == IndexOf(connections, me, 1)
                   IN  connections' = IF i > 0 THEN Splice(connections, i) ELSE connections
                /\ UNCHANGED crashed
    /\ UNCHANGED <<connection, connectTimeout, nextId>>

\* socket.on('pong')
Pong(s) ==
    /\ ~crashed
    /\ status[s] = "open"
    /\ out' = <<>>
    /\ IF connection[s] = Undefined
       THEN /\ crashed' = TRUE
            /\ log' = "TypeError: isAlive"
            /\ UNCHANGED conn
       ELSE /\ conn' = [conn EXCEPT ![connection[s]].isAlive = "true"]
            /\ log' = ""
            /\ UNCHANGED crashed
    /\ UNCHANGED <<status, connection, connectTimeout, nextId, connections, rooms,
                   room, connectionCount>>

RECURSIVE PingFromFalsy(_, _, _, _)
\* Mutant: the sweep tests "!c.isAlive" instead of "c.isAlive === false".
PingFromFalsy(i, st, cs, o) ==
    IF i > Len(connections) THEN [st |-> st, cs |-> cs, o |-> o]
    ELSE LET c == connections[i]
         IN  IF cs[c].isAlive # "true"
             THEN PingFromFalsy(i + 1, Terminate(st, cs[c].socket), cs,
                           o \o Terminated(st, cs[c].socket, c))
             ELSE PingFromFalsy(i + 1, st, [cs EXCEPT ![c].isAlive = "false"],
                                IF st[cs[c].socket] = "open"
                                THEN Append(o, [sock |-> cs[c].socket, conn |-> c,
                                                ev |-> "ping", args |-> <<>>,
                                                clients |-> {}])
                                ELSE o)

RECURSIVE PingFrom(_, _, _, _)
\* The body of the liveness interval, applied to connections[i..]; the
\* result is the socket states, the Connection objects and the probes sent.
PingFrom(i, st, cs, o) ==
    IF i > Len(connections) THEN [st |-> st, cs |-> cs, o |-> o]
    ELSE LET c == connections[i]
         IN  IF cs[c].isAlive = "false"
             THEN PingFrom(i + 1, Terminate(st, cs[c].socket), cs,
                           o \o Terminated(st, cs[c].socket, c))
             ELSE PingFrom(i + 1, st, [cs EXCEPT ![c].isAlive = "false"],
                           IF st[cs[c].socket] = "open"
                           THEN Append(o, [sock |-> cs[c].socket, conn |-> c, ev |-> "ping",
                                           args |-> <<>>, clients |-> {}])
                           ELSE o)

\* setInterval(function ping() {...}, 30000)
Ping ==
    /\ ~crashed
    /\ log' = ""
    /\ LET res == PingFrom(1, status, conn, <<>>)
       IN  /\ status' = res.st
           /\ conn' = res.cs
           /\ out' = res.o
    /\ UNCHANGED <<connection, connectTimeout, nextId, connections, rooms, room,
                   connectionCount, crashed>>

\* ------------------------------------------------------------- inputs
AuthPayloads == {NoPayload, Arr(<<>>)}
JoinPayloads ==
    {NoPayload, Arr(<<>>)}
        \cup {Arr(<<c, p, x>>) : c \in Codes, p \in PlayerIdArgs, x \in ClientIdArgs}
SetClientPayloads ==
    {NoPayload, Arr(<<>>)} \cup {Arr(<<p, x>>) : p \in PlayerIdArgs, x \in ClientIdArgs}
SignalPayloads ==
    {NoPayload, Arr(<<>>)} \cup {Arr(<<p, d>>) : p \in ConnIds, d \in SignalData}

\* The frames a client sends when it only authenticates and enters one lobby.
LiveJoinPayloads == {Arr(<<1, 1, 1>>)}

\* The session protocol: every frame handler, the handshake timer and the
\* close handler, in runs shorter than one liveness period.
Next ==
    \/ \E s \in Sockets : Connect(s)
    \/ \E s \in Sockets : ConnectTimeout(s)
    \/ \E s \in Sockets : ShortFrame(s)
    \/ \E s \in Sockets : UnknownEvent(s)
    \/ \E s \in Sockets, d \in AuthPayloads : Authentication(s, d)
    \/ \E s \in Sockets, d \in JoinPayloads : Join(s, d)
    \/ \E s \in Sockets, d \in SetClientPayloads : SetClient(s, d)
    \/ \E s \in Sockets : Leave(s)
    \/ \E s \in Sockets, d \in SignalPayloads : Signal(s, d)
    \/ \E s \in Sockets : Close(s)

Spec == Init /\ [][Next]_vars

\* The liveness monitor: the sweep and the pong handler, with clients that
\* authenticate (any number of times), enter a lobby, break the framing and
\* close.
NextLive ==
    \/ \E s \in Sockets : Connect(s)
    \/ \E s \in Sockets : ConnectTimeout(s)
    \/ \E s \in Sockets : ShortFrame(s)
    \/ \E s \in Sockets, d \in AuthPayloads : Authentication(s, d)
    \/ \E s \in Sockets, d \in LiveJoinPayloads : Join(s, d)
    \/ \E s \in Sockets : Close(s)
    \/ \E s \in Sockets : Pong(s)
    \/ Ping

SpecLive == Init /\ [][NextLive]_vars

\* ------------------------------------------------------------- claims
\* The Room objects the Room Registry holds.
Registered == {rooms[c] : c \in Codes} \ {Null}
Members(r) == SeqRange(room[r].connections)
Registry == SeqRange(connections)
IsSet(v) == v \notin {Undefined, Null}

\* C1: after the close event of a socket that has authenticated, whether or
\* not it was in a room, its Connection is in neither the Connection Registry
\* nor any Room's member list, and no Room is left in the registry empty.
C1_CloseCleansUp ==
    \A s \in Sockets :
        (status[s] = "closed" /\ connection[s] # Undefined) =>
            /\ connection[s] \notin Registry
            /\ \A r \in Registered : connection[s] \notin Members(r)
            /\ \A r \in Registered : Members(r) # {}

\* C2: the Connection Registry holds at most one Connection per open socket
\* and no Connection whose socket has closed.
C2_OneConnectionPerSocket ==
    /\ \A s \in Sockets : Cardinality({c \in Registry : conn[c].socket = s}) <= 1
    /\ \A c \in Registry : status[conn[c].socket] # "closed"

\* C3: each Connection appears in the member list of at most one Room.
C3_AtMostOneRoom ==
    \A c \in ConnIds : Cardinality({r \in Registered : c \in Members(r)}) <= 1

\* C4: no two distinct members of the same Room have the same non-null
\* clientId.  Stated for members on different sockets: the case does not
\* need a socket with two Connections.
C4_UniqueClientIds ==
    \A r \in Registered : \A a, b \in Members(r) :
        (conn[a].socket # conn[b].socket /\ IsSet(conn[a].clientId))
            => conn[a].clientId # conn[b].clientId

Frames(o) == {o[i] : i \in 1..Len(o)}

\* C5: a Join that asserts the clientId of another member of the target room
\* terminates the joining socket, sends no frame and changes neither the
\* room's member list, the registries nor any Connection.
C5_JoinSpoofRejected ==
    [][\A s \in Sockets, c \in Codes, p \in PlayerIdArgs, x \in ClientIdArgs :
        (/\ status[s] = "open"
         /\ connection[s] # Undefined
         /\ rooms[c] # Null
         /\ \E m \in Members(rooms[c]) : m # connection[s] /\ conn[m].clientId = x
         /\ Join(s, Arr(<<c, p, x>>)))
        => (/\ status'[s] = "terminated"
            /\ \A f \in Frames(out') : f.ev = "terminate" /\ f.sock = s
            /\ room' = room
            /\ rooms' = rooms
            /\ conn' = conn
            /\ connections' = connections)]_vars

\* The anti-spoof branch of join has just run against the only room there
\* is, which holds another connection with a clientId and not the joiner.
C5_Witness ==
    /\ log = "invalid join command"
    /\ Cardinality(Registered) = 1
    /\ \E s \in Sockets :
        /\ status[s] = "terminated"
        /\ out = Terminated([status EXCEPT ![s] = "open"], s, 0)
        /\ connection[s] # Undefined
        /\ \E r \in Registered :
            /\ connection[s] \notin Members(r)
            /\ \E m \in Members(r) : IsSet(conn[m].clientId) /\ conn[m].socket # s

\* C6: a SetClient that asserts the clientId of another member of the
\* sender's room terminates the sender, does not set its clientId to that
\* value and broadcasts no SetClient.  Stated for a member that sits on
\* another, open socket: the case does not need a socket with two
\* Connections.
C6_SetClientSpoofRejected ==
    [][\A s \in Sockets, p \in PlayerIdArgs, x \in ClientIdArgs :
        (/\ status[s] = "open"
         /\ connection[s] # Undefined
         /\ IsSet(conn[connection[s]].room)
         /\ connection[s] \in Members(conn[connection[s]].room)
         /\ \E m \in Members(conn[connection[s]].room) :
                /\ conn[m].socket # s
                /\ status[conn[m].socket] = "open"
                /\ conn[m].room = conn[connection[s]].room
                /\ conn[m].clientId = x
         /\ SetClient(s, Arr(<<p, x>>)))
        => (/\ status'[s] = "terminated"
            /\ conn'[connection[s]].clientId # x
            /\ \A f \in Frames(out') : f.ev # "SetClient")]_vars

\* C7: every Room in the registry has a member; a code enters the registry
\* only through a Join that succeeds for it; and a Join naming a code that
\* has no room creates one whose only member is the joiner.
C7_RoomLifecycle ==
    [][/\ \A c \in Codes : rooms'[c] # Null => room'[rooms'[c]].connections # <<>>
       /\ \A c \in Codes : (rooms[c] = Null /\ rooms'[c] # Null) =>
            \E s \in Sockets, p \in PlayerIdArgs, x \in ClientIdArgs :
                /\ Join(s, Arr(<<c, p, x>>))
                /\ connection[s] # Undefined
                /\ status'[s] = "open"
                /\ conn'[connection[s]].room = rooms'[c]
       /\ \A s \in Sockets, c \in Codes, p \in PlayerIdArgs, x \in ClientIdArgs :
            (/\ rooms[c] = Null
             /\ status[s] = "open"
             /\ connection[s] # Undefined
             /\ Join(s, Arr(<<c, p, x>>))) =>
                /\ rooms'[c] # Null
                /\ room'[rooms'[c]] = [code |-> c, connections |-> <<connection[s]>>]]_vars

\* A connection has just joined (its SetClients frame is out) a room of which
\* it is the only member, while another connection has left a room before.
C7_Witness ==
    \E c \in Codes, j, k \in ConnIds :
        /\ rooms[c] # Null
        /\ room[rooms[c]].connections = <<j>>
        /\ \E f \in Frames(out) : f.ev = "SetClients" /\ f.conn = j
        /\ conn[k].socket # conn[j].socket
        /\ conn[k].room = Null
        /\ \A d \in Codes \ {c} : rooms[d] = Null

\* C8: no Join or SetClient broadcast is written to the socket whose frame
\* triggered it.
C8_BroadcastExcludesSender ==
    [][\A s \in Sockets :
        (/\ \E f \in Frames(out') : f.ev \in {"Join", "SetClient"} /\ f.sock = s
         /\ status[s] = "open")
        => ~ \/ \E d \in JoinPayloads : Join(s, d)
             \/ \E d \in SetClientPayloads : SetClient(s, d)]_vars

\* C9: a sweep terminates every registered connection it finds with isAlive
\* false (probed by an earlier sweep, no pong handled since) and no other,
\* terminates no socket it sends a probe to, and probes and marks every other
\* connection whose socket stays open; only the pong handler undoes the mark.
C9_MissedProbeEvicts ==
    [][/\ Ping =>
            /\ \A c \in Registry :
                /\ conn[c].isAlive = "false" => status'[conn[c].socket] # "open"
                /\ (conn[c].isAlive # "false" /\ status'[conn[c].socket] = "open") =>
                    /\ conn'[c].isAlive = "false"
                    /\ \E f \in Frames(out') : f.ev = "ping" /\ f.conn = c
            /\ \A f \in Frames(out') : f.ev = "ping" => status'[f.sock] = "open"
            /\ \A s \in Sockets : (status[s] = "open" /\ status'[s] # "open") =>
                    \E c \in Registry : conn[c].socket = s /\ conn[c].isAlive = "false"
       /\ \A c \in ConnIds :
            (conn[c].isAlive = "false" /\ conn'[c].isAlive # "false") =>
                \E s \in Sockets : Pong(s) /\ connection[s] = c]_vars

\* A sweep has just terminated the socket of a connection that an earlier
\* sweep had marked, and has probed another connection.
C9_Witness ==
    \E c \in Registry :
        /\ conn[c].isAlive = "false"
        /\ status[conn[c].socket] = "terminated"
        /\ \E f \in Frames(out) : f.ev = "terminate" /\ f.conn = c
        /\ \E f \in Frames(out) : f.ev = "ping" /\ f.sock # conn[c].socket

\* C10: a Signal(peerId, data) from connection A writes exactly one frame,
\* Signal (A.id, data), to the connection with id peerId, when that
\* connection's room is A's room; otherwise it writes nothing.  Stated for a
\* peer on another socket than A's.
C10_SignalOnlyToRoomPeer ==
    [][\A s \in Sockets, peer \in ConnIds, d \in SignalData :
        (/\ status[s] = "open"
         /\ connection[s] # Undefined
         /\ peer < nextId
         /\ conn[peer].socket # s
         /\ Signal(s, Arr(<<peer, d>>))) =>
            IF /\ IsSet(conn[connection[s]].room)
               /\ conn[peer].room = conn[connection[s]].room
               /\ status[conn[peer].socket] = "open"
            THEN out' = <<Frame(peer, "Signal", <<connection[s], d>>, {})>>
            ELSE out' = <<>>]_vars

\* C11: a well-formed Join or SetClient frame on an open socket that has not
\* authenticated terminates that socket and changes neither the Room Registry
\* nor the Connection Registry.
C11_UnauthenticatedRejected ==
    [][\A s \in Sockets :
        (/\ status[s] = "open"
         /\ connection[s] = Undefined
         /\ \/ \E c \in Codes, p \in PlayerIdArgs, x \in ClientIdArgs :
                    Join(s, Arr(<<c, p, x>>))
            \/ \E p \in PlayerIdArgs, x \in ClientIdArgs : SetClient(s, Arr(<<p, x>>)))
        => (/\ status'[s] = "terminated"
            /\ rooms' = rooms
            /\ room' = room
            /\ connections' = connections)]_vars

\* The payloads that make a Join, SetClient or Signal frame malformed: none
\* at all, or an array that is too short.
Malformed == {NoPayload, Arr(<<>>)}

\* C12: a malformed frame (too short, an Authentication without payload, a
\* Join, SetClient or Signal whose payload is absent or too short) terminates
\* the sending socket, raises no unhandled error and changes no Connection,
\* room or registry.
C12_MalformedFrameTerminates ==
    [][\A s \in Sockets :
        (/\ status[s] = "open"
         /\ \/ ShortFrame(s)
            \/ Authentication(s, NoPayload)
            \/ \E d \in Malformed : Join(s, d) \/ SetClient(s, d) \/ Signal(s, d))
        => (/\ status'[s] = "terminated"
            /\ ~crashed'
            /\ conn' = conn
            /\ rooms' = rooms
            /\ room' = room
            /\ connections' = connections)]_vars

\* C13: a clientId that has been set on a Connection never changes, whatever
\* step is taken; and a SetClient that supplies a different clientId
\* terminates the socket and leaves every Connection (clientId and playerId
\* included) as it was.
C13_ClientIdImmutable ==
    [][/\ \A c \in ConnIds :
            IsSet(conn[c].clientId) => conn'[c].clientId = conn[c].clientId
       /\ \A s \in Sockets, p \in PlayerIdArgs, x \in ClientIdArgs :
            (/\ status[s] = "open"
             /\ connection[s] # Undefined
             /\ IsSet(conn[connection[s]].clientId)
             /\ conn[connection[s]].clientId # x
             /\ SetClient(s, Arr(<<p, x>>)))
            => (/\ status'[s] = "terminated"
                /\ conn' = conn)]_vars

\* The anti-spoof branch of the client handler has just terminated a socket
\* whose Connection has a clientId, has joined a room and has left it.
C13_Witness ==
    /\ log = "invalid id command"
    /\ \E s \in Sockets :
        /\ status[s] = "terminated"
        /\ out = Terminated([status EXCEPT ![s] = "open"], s, 0)
        /\ connection[s] # Undefined
        /\ IsSet(conn[connection[s]].clientId)
        /\ IsSet(conn[connection[s]].playerId)
        /\ conn[connection[s]].room = Null

\* C14: when the handshake timer of an open socket fires, the socket has not
\* authenticated, it is terminated, and no Connection of that socket is in
\* the Connection Registry or in a Room's member list; the timer of a socket
\* that has authenticated never fires.
C14_HandshakeTimer ==
    [][\A s \in Sockets :
        /\ (connection[s] # Undefined) => ~ConnectTimeout(s)
        /\ (status[s] = "open" /\ ConnectTimeout(s)) =>
            /\ status'[s] = "terminated"
            /\ \A c \in SeqRange(connections') : conn'[c].socket # s
            /\ \A r \in RoomIds : \A m \in SeqRange(room'[r].connections) :
                    conn'[m].socket # s]_vars

\* The timer has just terminated a socket that never authenticated, while
\* another socket, which authenticated in time, is open and in a room.
C14_Witness ==
    \E s, t \in Sockets :
        /\ status[s] = "terminated"
        /\ ~connectTimeout[s]
        /\ connection[s] = Undefined
        /\ out = Terminated([status EXCEPT ![s] = "open"], s, 0)
        /\ status[t] = "open"
        /\ connection[t] # Undefined
        /\ IsSet(conn[connection[t]].room)

\* C15: a sweep does not terminate an open socket whose pong has been handled
\* since the previous sweep (the socket's Connection has isAlive true),
\* whatever frames the socket sent before.
C15_AnsweredProbeSurvives ==
    [][\A s \in Sockets :
        (/\ status[s] = "open"
         /\ connection[s] # Undefined
         /\ conn[connection[s]].isAlive = "true"
         /\ Ping)
        => status'[s] = "open"]_vars

\* C16: the SetClients frame written to the joiner by a successful Join has
\* one entry, keyed by connection id and holding playerId and clientId, for
\* each other member of the joined room whose playerId is set, whatever its
\* value, and no other entry.  Stated for a room none of whose members sits
\* on the joiner's socket.
C16_SetClientsSnapshot ==
    [][\A s \in Sockets, c \in Codes, p \in PlayerIdArgs, x \in ClientIdArgs :
        (/\ status[s] = "open"
         /\ connection[s] # Undefined
         /\ rooms[c] # Null => \A m \in Members(rooms[c]) : conn[m].socket # s
         /\ Join(s, Arr(<<c, p, x>>))
         /\ status'[s] = "open")
        => \E f \in Frames(out') :
            /\ f.ev = "SetClients"
            /\ f.conn = connection[s]
            /\ f.clients =
                {[key |-> m, id |-> conn[m].playerId, clientId |-> conn[m].clientId] :
                    m \in {k \in SeqRange(room'[rooms'[c]].connections) \ {connection[s]} :
                            IsSet(conn[k].playerId)}}]_vars

\* C17: a Leave from a connection that has a room leaves it with no room
\* reference and in no Room's member list, removes its former room from the
\* Room Registry exactly when that room has no member left, and changes
\* neither the Connection Registry nor any other room; a Leave from a
\* connection that has no room changes nothing and keeps the socket open.
C17_LeaveDetaches ==
    [][\A s \in Sockets :
        (/\ status[s] = "open"
         /\ connection[s] # Undefined
         /\ Leave(s))
        => LET me == connection[s]
               r == conn[me].room
           IN  IF IsSet(r)
               THEN /\ ~IsSet(conn'[me].room)
                    /\ \A c \in Codes :
                        rooms'[c] # Null => me \notin SeqRange(room'[rooms'[c]].connections)
                    /\ rooms'[room[r].code] = Null <=> Members(r) \ {me} = {}
                    /\ connections' = connections
                    /\ status' = status
                    /\ \A c \in Codes \ {room[r].code} :
                        /\ rooms'[c] = rooms[c]
                        /\ rooms[c] # Null => room'[rooms[c]] = room[rooms[c]]
               ELSE /\ status' = status
                    /\ UNCHANGED <<conn, rooms, room, connections>>]_vars

\* C18: a well-formed Signal from an authenticated connection that has no
\* room writes no frame, raises no error, keeps the socket open and changes
\* neither registry.
C18_SignalWithoutRoomDropped ==
    [][\A s \in Sockets, peer \in ConnIds, d \in SignalData :
        (/\ status[s] = "open"
         /\ connection[s] # Undefined
         /\ ~IsSet(conn[connection[s]].room)
         /\ Signal(s, Arr(<<peer, d>>)))
        => (/\ out' = <<>>
            /\ ~crashed'
            /\ status'[s] = "open"
            /\ rooms' = rooms
            /\ room' = room
            /\ connections' = connections)]_vars

\* C19: a Join from an authenticated connection, when no other member of the
\* target room has the asserted clientId, attaches the connection to that
\* room and does not terminate it, also when the connection is itself a
\* member of the room and has that clientId.
C19_JoinAccepted ==
    [][\A s \in Sockets, c \in Codes, p \in PlayerIdArgs, x \in ClientIdArgs :
        (/\ status[s] = "open"
         /\ connection[s] # Undefined
         /\ rooms[c] # Null =>
                \A m \in Members(rooms[c]) \ {connection[s]} : conn[m].clientId # x
         /\ Join(s, Arr(<<c, p, x>>)))
        => (/\ status'[s] = "open"
            /\ rooms'[c] # Null
            /\ conn'[connection[s]].room = rooms'[c]
            /\ connection[s] \in SeqRange(room'[rooms'[c]].connections))]_vars

\* C20: whenever a Connection's room reference is set, the Room Registry maps
\* that Room's code to that very Room object and the Room's member list
\* contains the Connection.
C20_RoomReferenceValid ==
    \A c \in ConnIds :
        IsSet(conn[c].room) =>
            /\ room[conn[c].room].code \in Codes
            /\ rooms[room[conn[c].room].code] = conn[c].room
            /\ c \in Members(conn[c].room)

\* One connection of an open socket still refers to its room, the only one
\* registered, after the close handler of another socket, whose connection
\* had joined a room, has run to completion.
C20_Witness ==
    \E a, b \in ConnIds :
        /\ conn[a].room = Null
        /\ status[conn[a].socket] = "closed"
        /\ a \notin Registry
        /\ IsSet(conn[b].room)
        /\ status[conn[b].socket] = "open"
        /\ Cardinality(Registered) = 1
        /\ ~crashed
====
